---------------------------- MODULE Spec2Model ----------------------------
(***************************************************************************)
(* A model of src/dijkstra.js: the array-backed PriorityQueue (push, pop,  *)
(* get, length and the two balancing loops), Graph.create, Graph.bfs and   *)
(* Graph.dijkstra.  Array indices are the source's (0-based); At and Swap  *)
(* translate them to TLA+ sequences.                                       *)
(***************************************************************************)
EXTENDS Integers, Sequences, FiniteSets, TLC

VARIABLES
    kind,       \* which queue was constructed: "PriorityQueue" | "MinQueue" | "MaxQueue",
                \* or "Dijkstra" for the priorityQ of Graph.dijkstra
    initial,    \* the array handed to the constructor
    queue,      \* this.queue, the backing array
    op,         \* the last completed operation: "new" | "push" | "pop" | "get"
    arg,        \* the argument of the last push
    ret,        \* what the last pop / get returned
    before,     \* this.queue as it was when the last operation started
    pushes,     \* number of push calls so far
    pops,       \* number of pop calls made on a non-empty queue so far
    pushed,     \* fill-then-drain runs: the values pushed, in order
    popped,     \* fill-then-drain runs: the values returned by the pops, in order
    connections,\* the array of [src, dst, cost] entries handed to Graph.create
    ci,         \* Graph.create: number of entries processed so far
    vertices,   \* the Vertex objects allocated so far; a Vertex is named by its index
    lookup,     \* graph.lookup: key -> Vertex
    pc,         \* where the running function stands
    source,     \* the Vertex handed to Graph.bfs / Graph.dijkstra
    visited,    \* the keys k with visited[k] = true
    distance,   \* Graph.dijkstra: the distance map
    currVert,   \* the Vertex taken from the working queue
    ei,         \* number of edges of currVert handled so far
    bfsQueue,   \* Graph.bfs: the FIFO array
    calls       \* Graph.bfs: the calls of func made so far, as <<Vertex, edge index>>

pqVars == <<kind, initial, queue, op, arg, ret, before, pushes, pops, pushed, popped>>

graphVars == <<connections, ci, vertices, lookup>>

travVars == <<source, visited, distance, currVert, ei, bfsQueue, calls>>

vars == <<pqVars, graphVars, travVars, pc>>

---------------------------------------------------------------------------
(* Bounds of the model *)

MaxVal == 3
MaxInit == 2
MaxPushes == 4
MaxSortLen == 5
MaxSortVal == 5

Vals == 1..MaxVal
SortVals == 1..MaxSortVal

---------------------------------------------------------------------------
(* Arrays *)

At(q, i) == q[i + 1]

(* mutant: the second element is copied over the first, the first is lost *)
SwapCopies(q, i, j) == [q EXCEPT ![i + 1] = q[j + 1]]

Swap(q, i, j) == [q EXCEPT ![i + 1] = q[j + 1], ![j + 1] = q[i + 1]]

SeqsUpTo(S, n) == UNION {[1..k -> S] : k \in 0..n}

---------------------------------------------------------------------------
(* PriorityQueue *)

(* The compare callbacks: (child, parent) => child < parent, and its mirror *)
DefaultCompare == [child \in Int, parent \in Int |-> child < parent]

MinCompare == [child \in Int, parent \in Int |-> child < parent]

MaxCompare == [child \in Int, parent \in Int |-> child > parent]

(* a plain object used as a map: map[key] is defined, or undefined *)
Has(map, key) == key \in DOMAIN map

Put(map, key, value) ==
    [k \in DOMAIN map \cup {key} |-> IF k = key THEN value ELSE map[k]]

(* Graph.dijkstra's callback: distance[child.val] < distance[parent.val], read *)
(* from the distance map d as it is when the callback runs; a comparison with  *)
(* undefined is false                                                          *)
DistanceCompare(vs, d) ==
    [child \in 1..Len(vs), parent \in 1..Len(vs) |->
        /\ Has(d, vs[child].val)
        /\ Has(d, vs[parent].val)
        /\ d[vs[child].val] < d[vs[parent].val]]

CompareOf(k) ==
    CASE k = "PriorityQueue" -> DefaultCompare
      [] k = "MinQueue" -> MinCompare
      [] k = "MaxQueue" -> MaxCompare
      [] k = "Dijkstra" -> DistanceCompare(vertices, distance)

Kinds == {"PriorityQueue", "MinQueue", "MaxQueue"}

(* What pop and get hand back: an element, or null *)
Null == [null |-> TRUE, val |-> 0]

Value(v) == [null |-> FALSE, val |-> v]

(* The sibling pair of pivotIndex, and the one that is the swap candidate *)
PushLeftIndex(pivotIndex) ==
    IF pivotIndex % 2 = 1 THEN pivotIndex ELSE pivotIndex - 1

PushRightIndex(pivotIndex) ==
    IF pivotIndex % 2 = 0 THEN pivotIndex ELSE pivotIndex + 1

(* mutant: equal siblings go to the left one *)
ChildIndexTiesLeft(q, compare, leftIndex, rightIndex) ==
    IF rightIndex >= Len(q) \/ ~compare[At(q, rightIndex), At(q, leftIndex)]
    THEN leftIndex
    ELSE rightIndex

(* mutant: the siblings are never compared, the left one is always taken *)
ChildIndexAlwaysLeft(q, compare, leftIndex, rightIndex) == leftIndex

ChildIndex(q, compare, leftIndex, rightIndex) ==
    IF rightIndex >= Len(q) \/ compare[At(q, leftIndex), At(q, rightIndex)]
    THEN leftIndex
    ELSE rightIndex

(* mutant: the comparator is asked with parent and child exchanged *)
SwapIfNeededReversed(q, compare, childIndex, upperIndex) ==
    IF compare[At(q, upperIndex), At(q, childIndex)]
    THEN Swap(q, upperIndex, childIndex)
    ELSE q

(* One swap-if-needed of a child with the element above it *)
SwapIfNeeded(q, compare, childIndex, upperIndex) ==
    IF compare[At(q, childIndex), At(q, upperIndex)]
    THEN Swap(q, upperIndex, childIndex)
    ELSE q

RECURSIVE PushLoop(_, _, _)
PushLoop(q, compare, pivotIndex) ==
    IF pivotIndex > 0
    THEN LET parentIndex == (pivotIndex - 1) \div 2
             childIndex == ChildIndex(q, compare, PushLeftIndex(pivotIndex),
                                      PushRightIndex(pivotIndex))
         IN PushLoop(SwapIfNeeded(q, compare, childIndex, parentIndex),
                     compare, parentIndex)
    ELSE q

PushBalance(q, compare) == PushLoop(q, compare, Len(q) - 1)

(* childIndex = Infinity when the pivot has no child: the loop then ends *)
RECURSIVE PopLoop(_, _, _)
PopLoop(q, compare, pivotIndex) ==
    IF pivotIndex < Len(q) - 1
    THEN LET leftIndex == ((pivotIndex + 1) * 2) - 1
             rightIndex == (pivotIndex + 1) * 2
         IN IF leftIndex < Len(q)
            THEN LET childIndex == ChildIndex(q, compare, leftIndex, rightIndex)
                 IN PopLoop(SwapIfNeeded(q, compare, childIndex, pivotIndex),
                            compare, childIndex)
            ELSE q
    ELSE q

(* mutant: the removed element is written back as the root of an empty array *)
ReseatedAlways(q) ==
    LET newRoot == q[Len(q)]
        rest == SubSeq(q, 1, Len(q) - 1)
    IN IF Len(rest) > 0 THEN [rest EXCEPT ![1] = newRoot] ELSE <<newRoot>>

(* let newRoot = this.queue.pop(), written to index 0 if anything is left *)
Reseated(q) ==
    LET newRoot == q[Len(q)]
        rest == SubSeq(q, 1, Len(q) - 1)
    IN IF Len(rest) > 0 THEN [rest EXCEPT ![1] = newRoot] ELSE rest

PopBalance(q, compare) == PopLoop(Reseated(q), compare, 0)

(* The rounds of the two loops, in order: the sibling pair, the child chosen, *)
(* the index above it, and the array as the round found it                    *)
Round(q, leftIndex, rightIndex, childIndex, upperIndex) ==
    [q |-> q, leftIndex |-> leftIndex, rightIndex |-> rightIndex,
     childIndex |-> childIndex, upperIndex |-> upperIndex]

RECURSIVE PushRounds(_, _, _)
PushRounds(q, compare, pivotIndex) ==
    IF pivotIndex > 0
    THEN LET parentIndex == (pivotIndex - 1) \div 2
             leftIndex == PushLeftIndex(pivotIndex)
             rightIndex == PushRightIndex(pivotIndex)
             childIndex == ChildIndex(q, compare, leftIndex, rightIndex)
         IN <<Round(q, leftIndex, rightIndex, childIndex, parentIndex)>>
            \o PushRounds(SwapIfNeeded(q, compare, childIndex, parentIndex),
                          compare, parentIndex)
    ELSE <<>>

RECURSIVE PopRounds(_, _, _)
PopRounds(q, compare, pivotIndex) ==
    IF pivotIndex < Len(q) - 1
    THEN LET leftIndex == ((pivotIndex + 1) * 2) - 1
             rightIndex == (pivotIndex + 1) * 2
         IN IF leftIndex < Len(q)
            THEN LET childIndex == ChildIndex(q, compare, leftIndex, rightIndex)
                 IN <<Round(q, leftIndex, rightIndex, childIndex, pivotIndex)>>
                    \o PopRounds(SwapIfNeeded(q, compare, childIndex, pivotIndex),
                                 compare, childIndex)
            ELSE <<>>
    ELSE <<>>

(* the indices of the array a round reads: the siblings when the right one is *)
(* in bounds, then the chosen child and the element above it                  *)
RoundReads(r) ==
    (IF r.rightIndex >= Len(r.q) THEN {} ELSE {r.leftIndex, r.rightIndex})
        \cup {r.childIndex, r.upperIndex}

Length(q) == Len(q)

PushResult(q, compare, val) == PushBalance(Append(q, val), compare)

(* mutant: get reads the last element instead of the first *)
GetResultLast(q) == IF Len(q) > 0 THEN Value(At(q, Len(q) - 1)) ELSE Null

GetResult(q) == IF Len(q) > 0 THEN Value(At(q, 0)) ELSE Null

PopReturn(q) == IF Len(q) > 0 THEN Value(At(q, 0)) ELSE Null

(* mutant: the root is reseated but the last element is never removed *)
PopResultKeepsLast(q, compare) ==
    IF Len(q) > 0 THEN PopLoop([q EXCEPT ![1] = q[Len(q)]], compare, 0) ELSE q

PopResult(q, compare) == IF Len(q) > 0 THEN PopBalance(q, compare) ELSE q

(* compare(element[i], element[parent(i)]) is false for every non-root i *)
IsHeap(q, compare) ==
    \A i \in 1..(Len(q) - 1) : ~compare[At(q, i), At(q, (i - 1) \div 2)]

---------------------------------------------------------------------------
(* The operations on one PriorityQueue object *)

PushWith(compare, val) ==
    /\ queue' = PushResult(queue, compare, val)
    /\ ret' = Null
    /\ op' = "push"
    /\ arg' = val
    /\ before' = queue

Push(val) == PushWith(CompareOf(kind), val)

Pop ==
    /\ ret' = PopReturn(queue)
    /\ queue' = PopResult(queue, CompareOf(kind))
    /\ op' = "pop"
    /\ arg' = 0
    /\ before' = queue

Get ==
    /\ ret' = GetResult(queue)
    /\ queue' = queue
    /\ op' = "get"
    /\ arg' = 0
    /\ before' = queue

(* No graph built and no traversal started *)
NoGraph ==
    /\ connections = <<>>
    /\ ci = 0
    /\ vertices = <<>>
    /\ lookup = <<>>

NoTraversal ==
    /\ source = 0
    /\ visited = {}
    /\ distance = <<>>
    /\ currVert = 0
    /\ ei = 0
    /\ bfsQueue = <<>>
    /\ calls = <<>>

(* new PriorityQueue(queue, compare): a copy of an array that is already a heap *)
Construct(k, q) ==
    /\ kind = k
    /\ initial = q
    /\ queue = q
    /\ op = "new"
    /\ arg = 0
    /\ ret = Null
    /\ before = q
    /\ pushes = 0
    /\ pops = 0
    /\ pushed = <<>>
    /\ popped = <<>>

Init ==
    /\ \E k \in Kinds :
          \E q \in {s \in SeqsUpTo(Vals, MaxInit) : IsHeap(s, CompareOf(k))} :
              Construct(k, q)
    /\ NoGraph
    /\ NoTraversal
    /\ pc = "queue"

DoPush ==
    /\ pushes < MaxPushes
    /\ \E val \in Vals : Push(val)
    /\ pushes' = pushes + 1
    /\ UNCHANGED <<kind, initial, pops, pushed, popped, graphVars, travVars, pc>>

DoPop ==
    /\ Pop
    /\ pops' = IF Len(queue) > 0 THEN pops + 1 ELSE pops
    /\ UNCHANGED <<kind, initial, pushes, pushed, popped, graphVars, travVars, pc>>

DoGet ==
    /\ Get
    /\ UNCHANGED <<kind, initial, pushes, pops, pushed, popped, graphVars, travVars, pc>>

Next == DoPush \/ DoPop \/ DoGet

Spec == Init /\ [][Next]_vars

---------------------------------------------------------------------------
(* Fill then drain: n pushes into an empty queue, then n pops *)

InitSort ==
    /\ \E k \in Kinds : Construct(k, <<>>)
    /\ NoGraph
    /\ NoTraversal
    /\ pc = "queue"

FillPush ==
    /\ popped = <<>>
    /\ Len(pushed) < MaxSortLen
    /\ \E val \in SortVals :
          /\ Push(val)
          /\ pushed' = Append(pushed, val)
    /\ pushes' = pushes + 1
    /\ UNCHANGED <<kind, initial, pops, popped, graphVars, travVars, pc>>

DrainPop ==
    /\ Len(queue) > 0
    /\ Pop
    /\ popped' = Append(popped, ret'.val)
    /\ pops' = pops + 1
    /\ UNCHANGED <<kind, initial, pushes, pushed, graphVars, travVars, pc>>

NextSort == FillPush \/ DrainPop

SpecSort == InitSort /\ [][NextSort]_vars

---------------------------------------------------------------------------
(* Graph.create *)

MaxKey == 2
MaxCost == 2
MaxConns == 3

Keys == 1..MaxKey

Costs == 1..MaxCost

Entries == {<<src, dst, cost>> : src \in Keys, dst \in Keys, cost \in Costs}

ConnLists == SeqsUpTo(Entries, MaxConns)

(* the keys that appear in connections *)
KeysIn(conns) ==
    {conns[i][1] : i \in 1..Len(conns)} \cup {conns[i][2] : i \in 1..Len(conns)}

Edge(vertex, cost) == [vertex |-> vertex, cost |-> cost]

Vertex(val) == [val |-> val, edges |-> <<>>]

EmptyGraph == [vertices |-> <<>>, lookup |-> <<>>]

(* One round of the for loop; a new Vertex takes the next free index *)
CreateStep(g, entry) ==
    LET src == entry[1]
        dst == entry[2]
        cost == entry[3]
        haveSrc == Has(g.lookup, src)
        vs1 == IF haveSrc THEN g.vertices ELSE Append(g.vertices, Vertex(src))
        srcVertex == IF haveSrc THEN g.lookup[src] ELSE Len(vs1)
        haveDst == Has(g.lookup, dst)
        vs2 == IF haveDst THEN vs1 ELSE Append(vs1, Vertex(dst))
        dstVertex == IF haveDst THEN g.lookup[dst] ELSE Len(vs2)
        vs3 == [vs2 EXCEPT ![srcVertex].edges = Append(@, Edge(dstVertex, cost))]
    IN [vertices |-> vs3,
        lookup |-> Put(Put(g.lookup, src, srcVertex), dst, dstVertex)]

RECURSIVE CreateFrom(_, _, _)
CreateFrom(g, conns, i) ==
    IF i < Len(conns)
    THEN CreateFrom(CreateStep(g, conns[i + 1]), conns, i + 1)
    ELSE g

Create(conns) == CreateFrom(EmptyGraph, conns, 0)

(* No PriorityQueue in use *)
NoQueue == Construct("PriorityQueue", <<>>)

InitCreate ==
    /\ NoQueue
    /\ connections \in ConnLists
    /\ ci = 0
    /\ vertices = <<>>
    /\ lookup = <<>>
    /\ NoTraversal
    /\ pc = "create"

CreateIterate ==
    /\ pc = "create"
    /\ ci < Len(connections)
    /\ LET g == CreateStep([vertices |-> vertices, lookup |-> lookup],
                           connections[ci + 1])
       IN /\ vertices' = g.vertices
          /\ lookup' = g.lookup
    /\ ci' = ci + 1
    /\ UNCHANGED <<connections, pqVars, travVars, pc>>

CreateReturn ==
    /\ pc = "create"
    /\ ci = Len(connections)
    /\ pc' = "created"
    /\ UNCHANGED <<pqVars, graphVars, travVars>>

NextCreate == CreateIterate \/ CreateReturn

SpecCreate == InitCreate /\ [][NextCreate]_vars

---------------------------------------------------------------------------
(* The graphs handed to Graph.dijkstra and Graph.bfs *)

(* the connections of main *)
MainConnections ==
    << <<1, 2, 2>>, <<1, 3, 4>>, <<2, 4, 7>>, <<2, 3, 1>>,
       <<3, 5, 3>>, <<4, 6, 1>>, <<5, 4, 2>>, <<5, 6, 5>> >>

(* parallel edges of different costs and zero-cost edges *)
ParallelConnections ==
    << <<1, 3, 2>>, <<4, 5, 1>>, <<5, 3, 0>>, <<1, 3, 2>>, <<1, 3, 2>>,
       <<1, 4, 2>>, <<4, 2, 3>>, <<1, 4, 0>>, <<3, 2, 0>> >>

(* a cycle 1 -> 2 -> 3 -> 1, a self-loop on 2, and a key that leads into the cycle *)
CyclicConnections ==
    << <<1, 2, 1>>, <<2, 3, 1>>, <<3, 1, 1>>, <<2, 2, 1>>, <<3, 4, 2>>, <<5, 1, 1>> >>

(* negative costs: a cycle 1 -> 2 -> 1 of negative sum and a negative self-loop *)
NegativeConnections ==
    << <<1, 2, -1>>, <<2, 1, -1>>, <<2, 3, 2>>, <<1, 3, -2>>, <<3, 3, -1>> >>

RECURSIVE Pick(_, _, _)
Pick(conns, keep, i) ==
    IF i > Len(conns) THEN <<>>
    ELSE (IF i \in keep THEN <<conns[i]>> ELSE <<>>) \o Pick(conns, keep, i + 1)

SubLists(conns) == {Pick(conns, keep, 1) : keep \in SUBSET (1..Len(conns))}

TraversalInputs ==
    (SubLists(MainConnections) \cup SubLists(ParallelConnections)
        \cup SubLists(CyclicConnections)
        \cup SubLists(NegativeConnections)) \ {<<>>}

(* graph = Graph.create(conns); the traversal starts from graph.lookup[key] *)
Created(conns, key) ==
    LET g == Create(conns)
    IN /\ connections = conns
       /\ ci = Len(conns)
       /\ vertices = g.vertices
       /\ lookup = g.lookup
       /\ source = g.lookup[key]

---------------------------------------------------------------------------
(* Graph.dijkstra *)

(* mutant: the undefined test is missing; a comparison with undefined is false *)
RelaxedNoInit(d, from, to, cost) ==
    IF Has(d, to) /\ Has(d, from) /\ d[to] > d[from] + cost
    THEN Put(d, to, d[from] + cost)
    ELSE d

(* mutant: a recorded distance is never improved *)
RelaxedFirstOnly(d, from, to, cost) ==
    IF ~Has(d, to)
    THEN Put(d, to, d[from] + cost)
    ELSE d

Relaxed(d, from, to, cost) ==
    IF ~Has(d, to) \/ d[to] > d[from] + cost
    THEN Put(d, to, d[from] + cost)
    ELSE d

InitDijkstra ==
    \E conns \in TraversalInputs :
        \E key \in KeysIn(conns) :
            /\ Created(conns, key)
            /\ visited = {}
            /\ distance = Put(<<>>, key, 0)
            /\ kind = "Dijkstra"
            /\ initial = <<source>>
            /\ queue = <<source>>
            /\ op = "new"
            /\ arg = 0
            /\ ret = Null
            /\ before = <<source>>
            /\ pushes = 0
            /\ pops = 0
            /\ pushed = <<>>
            /\ popped = <<>>
            /\ currVert = 0
            /\ ei = 0
            /\ bfsQueue = <<>>
            /\ calls = <<>>
            /\ pc = "loop"

(* mutant: the visited test is missing, every popped vertex is expanded *)
DijkstraPopNoGuard ==
    /\ pc = "loop"
    /\ Length(queue) > 0
    /\ Pop
    /\ pops' = pops + 1
    /\ currVert' = ret'.val
    /\ visited' = visited \cup {vertices[currVert'].val}
    /\ ei' = 0
    /\ pc' = IF Len(vertices[currVert'].edges) > 0 THEN "edges" ELSE "loop"
    /\ UNCHANGED <<kind, initial, pushes, pushed, popped, graphVars,
                   source, distance, bfsQueue, calls>>

(* let currVert = priorityQ.pop(), and the visited test *)
DijkstraPop ==
    /\ pc = "loop"
    /\ Length(queue) > 0
    /\ Pop
    /\ pops' = pops + 1
    /\ currVert' = ret'.val
    /\ IF vertices[currVert'].val \notin visited
       THEN /\ visited' = visited \cup {vertices[currVert'].val}
            /\ ei' = 0
            /\ pc' = IF Len(vertices[currVert'].edges) > 0 THEN "edges" ELSE "loop"
       ELSE /\ UNCHANGED <<visited, ei>>
            /\ pc' = "loop"
    /\ UNCHANGED <<kind, initial, pushes, pushed, popped, graphVars,
                   source, distance, bfsQueue, calls>>

(* one round of the for loop: relax the edge, then push its vertex *)
DijkstraRelax ==
    /\ pc = "edges"
    /\ LET edge == vertices[currVert].edges[ei + 1]
       IN /\ distance' = Relaxed(distance, vertices[currVert].val,
                                 vertices[edge.vertex].val, edge.cost)
          /\ PushWith(DistanceCompare(vertices, distance'), edge.vertex)
    /\ pushes' = pushes + 1
    /\ ei' = ei + 1
    /\ pc' = IF ei + 1 < Len(vertices[currVert].edges) THEN "edges" ELSE "loop"
    /\ UNCHANGED <<kind, initial, pops, pushed, popped, graphVars,
                   source, visited, currVert, bfsQueue, calls>>

(* return distance *)
DijkstraReturn ==
    /\ pc = "loop"
    /\ Length(queue) = 0
    /\ pc' = "done"
    /\ UNCHANGED <<pqVars, graphVars, travVars>>

NextDijkstra == DijkstraPop \/ DijkstraRelax \/ DijkstraReturn

SpecDijkstra == InitDijkstra /\ [][NextDijkstra]_vars

(* the while loop keeps running as long as the method has not returned *)
SpecDijkstraFair == SpecDijkstra /\ WF_vars(NextDijkstra)

---------------------------------------------------------------------------
(* Graph.bfs *)

InitBfs ==
    \E conns \in TraversalInputs :
        \E key \in KeysIn(conns) :
            /\ Created(conns, key)
            /\ NoQueue
            /\ visited = {}
            /\ distance = <<>>
            /\ currVert = 0
            /\ ei = 0
            /\ bfsQueue = <<source>>
            /\ calls = <<>>
            /\ pc = "loop"

(* mutant: the visited test is missing, every dequeued vertex is expanded *)
BfsShiftNoGuard ==
    /\ pc = "loop"
    /\ Len(bfsQueue) > 0
    /\ currVert' = Head(bfsQueue)
    /\ bfsQueue' = Tail(bfsQueue)
    /\ IF Len(vertices[currVert'].edges) > 0
       THEN /\ ei' = 0
            /\ pc' = "edges"
            /\ UNCHANGED visited
       ELSE /\ visited' = visited \cup {vertices[currVert'].val}
            /\ pc' = "loop"
            /\ UNCHANGED ei
    /\ UNCHANGED <<pqVars, graphVars, source, distance, calls>>

(* let currVert = queue.shift(), and the visited test; a vertex without *)
(* edges is marked visited at once                                       *)
BfsShift ==
    /\ pc = "loop"
    /\ Len(bfsQueue) > 0
    /\ currVert' = Head(bfsQueue)
    /\ bfsQueue' = Tail(bfsQueue)
    /\ IF vertices[currVert'].val \notin visited
       THEN IF Len(vertices[currVert'].edges) > 0
            THEN /\ ei' = 0
                 /\ pc' = "edges"
                 /\ UNCHANGED visited
            ELSE /\ visited' = visited \cup {vertices[currVert'].val}
                 /\ pc' = "loop"
                 /\ UNCHANGED ei
       ELSE /\ pc' = "loop"
            /\ UNCHANGED <<visited, ei>>
    /\ UNCHANGED <<pqVars, graphVars, source, distance, calls>>

(* mutant: the destination is put at the front of the array, not the end *)
BfsEdgeUnshift ==
    /\ pc = "edges"
    /\ calls' = Append(calls, <<currVert, ei + 1>>)
    /\ bfsQueue' = <<vertices[currVert].edges[ei + 1].vertex>> \o bfsQueue
    /\ ei' = ei + 1
    /\ IF ei + 1 < Len(vertices[currVert].edges)
       THEN /\ pc' = "edges"
            /\ UNCHANGED visited
       ELSE /\ visited' = visited \cup {vertices[currVert].val}
            /\ pc' = "loop"
    /\ UNCHANGED <<pqVars, graphVars, source, distance, currVert>>

(* one round of the for loop: func(currVert, edge), queue.push(edge.vertex); *)
(* after the last round the vertex is marked visited                         *)
BfsEdge ==
    /\ pc = "edges"
    /\ calls' = Append(calls, <<currVert, ei + 1>>)
    /\ bfsQueue' = Append(bfsQueue, vertices[currVert].edges[ei + 1].vertex)
    /\ ei' = ei + 1
    /\ IF ei + 1 < Len(vertices[currVert].edges)
       THEN /\ pc' = "edges"
            /\ UNCHANGED visited
       ELSE /\ visited' = visited \cup {vertices[currVert].val}
            /\ pc' = "loop"
    /\ UNCHANGED <<pqVars, graphVars, source, distance, currVert>>

(* the while loop ends *)
BfsReturn ==
    /\ pc = "loop"
    /\ Len(bfsQueue) = 0
    /\ pc' = "done"
    /\ UNCHANGED <<pqVars, graphVars, travVars>>

NextBfs == BfsShift \/ BfsEdge \/ BfsReturn

SpecBfs == InitBfs /\ [][NextBfs]_vars

(* bfs runs to completion without suspension: a step that can be taken is taken *)
SpecBfsFair == SpecBfs /\ WF_vars(NextBfs)

---------------------------------------------------------------------------
(* Helpers of the properties *)

Count(s, v) == Cardinality({i \in 1..Len(s) : s[i] = v})

SameMultiset(s, t) ==
    \A v \in {s[i] : i \in 1..Len(s)} \cup {t[i] : i \in 1..Len(t)} :
        Count(s, v) = Count(t, v)

(* non-decreasing for the '<' comparators, non-increasing for MaxQueue *)
InPopOrder(k, s) ==
    \A i \in 1..(Len(s) - 1) :
        IF k = "MaxQueue" THEN s[i] >= s[i + 1] ELSE s[i] <= s[i + 1]

---------------------------------------------------------------------------
(* C1: after every completed push or pop, on a queue built empty or from an *)
(* array that is already a heap, no element compares before its parent:     *)
(* compare(queue[i], queue[(i-1) div 2]) is false for all 1 <= i < length.  *)
HeapProperty == IsHeap(queue, CompareOf(kind))

(* a pop from a four-element heap with a duplicate that had to sift down *)
HeapPropertyWitness ==
    /\ op = "pop"
    /\ Len(before) >= 4
    /\ \E i, j \in 1..Len(before) : i # j /\ before[i] = before[j]
    /\ queue # SubSeq([before EXCEPT ![1] = before[Len(before)]], 1, Len(before) - 1)
    /\ pushes >= 3

(* C3: the values pushed one by one into an empty queue come back from the  *)
(* pops in sorted order (non-decreasing for MinQueue and the default        *)
(* comparator, non-increasing for MaxQueue), and once the queue is drained  *)
(* they are exactly the values pushed; 1,2,3,4,5 into a MaxQueue comes back *)
(* as 5,4,3,2,1.                                                            *)
PopsSorted ==
    /\ InPopOrder(kind, popped)
    /\ \A i \in 1..Len(popped) : \A j \in 1..Len(queue) :
          InPopOrder(kind, <<popped[i], queue[j]>>)
    /\ (popped # <<>> /\ queue = <<>>) => SameMultiset(popped, pushed)
    /\ (kind = "MaxQueue" /\ pushed = <<1, 2, 3, 4, 5>> /\ Len(popped) = Len(pushed))
          => popped = <<5, 4, 3, 2, 1>>

PopsSortedWitness ==
    /\ kind = "MaxQueue"
    /\ pushed = <<1, 2, 3, 4, 5>>
    /\ popped = <<5, 4, 3, 2, 1>>
    /\ queue = <<>>

(* C4: on a queue that starts empty, length = pushes - pops made on a       *)
(* non-empty queue; a push raises length by 1, a pop on a non-empty queue   *)
(* lowers it by 1, a pop on an empty queue leaves it at 0.                  *)
LengthCounts ==
    /\ initial = <<>> => Length(queue) = pushes - pops
    /\ op = "push" => Length(queue) = Length(before) + 1
    /\ (op = "pop" /\ Length(before) > 0) => Length(queue) = Length(before) - 1
    /\ (op = "pop" /\ Length(before) = 0) => Length(queue) = 0

(* a pop on a queue emptied by earlier pops *)
LengthCountsWitness ==
    /\ initial = <<>>
    /\ pushes >= 2
    /\ pops = pushes
    /\ op = "pop"
    /\ before = <<>>

(* C5: pop and get on an empty queue return null and leave the array empty; *)
(* get on a non-empty queue returns element 0 and leaves the array as it    *)
(* was, in content and order.                                               *)
EmptyAndPeek ==
    /\ (op \in {"pop", "get"} /\ before = <<>>) => (ret = Null /\ queue = <<>>)
    /\ (op = "get" /\ before # <<>>) => (ret = Value(At(before, 0)) /\ queue = before)

(* a get on a queue of three or more elements that has seen a pop *)
EmptyAndPeekWitness ==
    /\ op = "get"
    /\ Len(before) >= 3
    /\ pops >= 1
    /\ ret = Value(before[1])

(* the edges held by Vertex v, as <<destination key, cost>> pairs, in order *)
EdgesOf(vs, v) ==
    [i \in 1..Len(vs[v].edges) |->
        <<vs[vs[v].edges[i].vertex].val, vs[v].edges[i].cost>>]

(* the <<destination key, cost>> pairs of the entries whose source is k, in order *)
RECURSIVE EntriesFrom(_, _)
EntriesFrom(conns, k) ==
    IF conns = <<>> THEN <<>>
    ELSE IF Head(conns)[1] = k
         THEN <<<<Head(conns)[2], Head(conns)[3]>>>> \o EntriesFrom(Tail(conns), k)
         ELSE EntriesFrom(Tail(conns), k)

RECURSIVE EdgeTotal(_, _, _)
EdgeTotal(vs, lk, ks) ==
    IF ks = {} THEN 0
    ELSE LET k == CHOOSE x \in ks : TRUE
         IN Len(vs[lk[k]].edges) + EdgeTotal(vs, lk, ks \ {k})

Orderings(n) == {p \in [1..n -> 1..n] : \A i, j \in 1..n : p[i] = p[j] => i = j}

(* C9: after Graph.create, lookup[k].edges is, for every key k of the input, *)
(* the <<destination key, cost>> pairs of the entries with source k in input *)
(* order, self-loops and repeated pairs included, so that the vertices in    *)
(* lookup hold as many edges as the input has entries.                       *)
CreateKeepsEveryEntry ==
    pc = "created" =>
        /\ \A k \in KeysIn(connections) :
              /\ Has(lookup, k)
              /\ EdgesOf(vertices, lookup[k]) = EntriesFrom(connections, k)
        /\ EdgeTotal(vertices, lookup, DOMAIN lookup) = Len(connections)

(* C10: Graph.create gives every permutation of the same entries the same    *)
(* graph: the same keys in lookup and, per key, the same multiset of         *)
(* <<destination key, cost>> edges.                                          *)
CreateOrderIndependent ==
    pc = "created" =>
        \A p \in Orderings(Len(connections)) :
            LET g == Create([i \in 1..Len(connections) |-> connections[p[i]]])
            IN /\ DOMAIN g.lookup = DOMAIN lookup
               /\ \A k \in DOMAIN lookup :
                     SameMultiset(EdgesOf(g.vertices, g.lookup[k]),
                                  EdgesOf(vertices, lookup[k]))

(* the edges of the graph, as <<source key, destination key, cost>> *)
EdgeTriples(vs, lk) ==
    UNION {{<<k, vs[vs[lk[k]].edges[i].vertex].val, vs[lk[k]].edges[i].cost>> :
               i \in 1..Len(vs[lk[k]].edges)} : k \in DOMAIN lk}

(* the sums of the edge costs along the walks of at most n edges from key s, *)
(* per end key                                                                *)
RECURSIVE WalkCosts(_, _, _, _)
WalkCosts(E, K, s, n) ==
    IF n = 0 THEN [k \in K |-> IF k = s THEN {0} ELSE {}]
    ELSE LET C == WalkCosts(E, K, s, n - 1)
         IN [k \in K |->
                C[k] \cup UNION {{c + e[3] : c \in C[e[1]]} : e \in {x \in E : x[2] = k}}]

(* every path is a walk of fewer than |K| edges *)
PathCosts(vs, lk, s) ==
    WalkCosts(EdgeTriples(vs, lk), DOMAIN lk, s, Cardinality(DOMAIN lk) - 1)

Minimum(S) == CHOOSE m \in S : \A x \in S : m <= x

ReachableKeys(vs, lk, s) == {k \in DOMAIN lk : PathCosts(vs, lk, s)[k] # {}}

NonNegativeCosts(vs, lk) == \A e \in EdgeTriples(vs, lk) : e[3] >= 0

OneVertexPerKey(vs, lk) ==
    \A k \in DOMAIN lk : \A i \in 1..Len(vs[lk[k]].edges) :
        LET v == vs[lk[k]].edges[i].vertex IN lk[vs[v].val] = v

(* C2: on a graph with one Vertex per key and no negative cost, the map     *)
(* returned by Graph.dijkstra(source) gives every vertex reachable from     *)
(* source the least sum of edge costs over the paths from source to it.     *)
DijkstraShortest ==
    (pc = "done" /\ OneVertexPerKey(vertices, lookup)
                 /\ NonNegativeCosts(vertices, lookup)) =>
        \A k \in ReachableKeys(vertices, lookup, vertices[source].val) :
            /\ Has(distance, k)
            /\ distance[k] = Minimum(PathCosts(vertices, lookup, vertices[source].val)[k])

(* C6: the keys of the map returned by Graph.dijkstra(source) are exactly   *)
(* the keys of the vertices reachable from source, source included.         *)
DijkstraKeysReachable ==
    pc = "done" =>
        DOMAIN distance = ReachableKeys(vertices, lookup, vertices[source].val)

(* a finished run on a graph with a vertex that source cannot reach and one *)
(* it reaches over two edges                                                *)
DijkstraKeysReachableWitness ==
    /\ pc = "done"
    /\ DOMAIN distance # DOMAIN lookup
    /\ Cardinality(DOMAIN distance) >= 3
    /\ pops > Cardinality(DOMAIN distance)

(* C7 as stated: on the connections of main, from key 1, the distances are  *)
(* {1:0, 2:2, 3:3, 4:7, 5:6, 6:8}.                                          *)
MainDistancesAsStated ==
    (pc = "done" /\ connections = MainConnections /\ vertices[source].val = 1) =>
        distance = (1 :> 0) @@ (2 :> 2) @@ (3 :> 3) @@ (4 :> 7) @@ (5 :> 6) @@ (6 :> 8)

(* C7, amended: on the connections of main, from key 1, the distances are  *)
(* {1:0, 2:2, 3:3, 4:8, 5:6, 6:9}.                                          *)
MainDistances ==
    (pc = "done" /\ connections = MainConnections /\ vertices[source].val = 1) =>
        distance = (1 :> 0) @@ (2 :> 2) @@ (3 :> 3) @@ (4 :> 8) @@ (5 :> 6) @@ (6 :> 9)

MainDistancesWitness ==
    /\ pc = "done"
    /\ connections = MainConnections
    /\ vertices[source].val = 1
    /\ Cardinality(DOMAIN distance) = 6

(* the calls func(vertex, edge) owed to the vertices reachable from source *)
ReachableEdges(vs, lk, s) ==
    UNION {{<<lk[k], i>> : i \in 1..Len(vs[lk[k]].edges)} :
              k \in ReachableKeys(vs, lk, vs[s].val)}

BfsCallsOnce ==
    /\ \A i, j \in 1..Len(calls) : calls[i] = calls[j] => i = j
    /\ {calls[i] : i \in 1..Len(calls)} \subseteq ReachableEdges(vertices, lookup, source)
    /\ pc = "done" =>
          {calls[i] : i \in 1..Len(calls)} = ReachableEdges(vertices, lookup, source)

(* C8: Graph.bfs terminates on every graph, cycles and self-loops included,  *)
(* and func is called exactly once for each outgoing edge of each vertex     *)
(* reachable from source and never for an edge of an unreachable vertex.     *)
BfsTerminatesCallsOnce == <>(pc = "done") /\ []BfsCallsOnce

(* a finished run over the cycle, the self-loop and the unreachable key *)
BfsTerminatesCallsOnceWitness ==
    /\ pc = "done"
    /\ connections = CyclicConnections
    /\ vertices[source].val = 1
    /\ Len(calls) = 5
    /\ visited = {1, 2, 3, 4}

(* the live distance of a Vertex held in the priority queue *)
DistanceOf(v) == distance[vertices[v].val]

(* C11: with non-negative costs, the vertex returned by priorityQ.pop() has  *)
(* the least current distance of all the entries the queue held just before  *)
(* the pop, stale duplicates included.                                       *)
DijkstraPopsLeast ==
    (kind = "Dijkstra" /\ op = "pop" /\ NonNegativeCosts(vertices, lookup)) =>
        \A i \in 1..Len(before) : DistanceOf(ret.val) <= DistanceOf(before[i])

(* C12: in Graph.dijkstra, after every completed push or pop, no entry of    *)
(* the queue has a smaller live distance than its parent entry.              *)
DijkstraHeapProperty ==
    kind = "Dijkstra" => IsHeap(queue, DistanceCompare(vertices, distance))

DistanceStep ==
    (kind = "Dijkstra" /\ NonNegativeCosts(vertices, lookup)) =>
        \A k \in DOMAIN distance :
            /\ Has(distance', k)
            /\ distance'[k] <= distance[k]
            /\ k \in visited => distance'[k] = distance[k]

(* C13: with non-negative costs the distance map only improves: an entry is  *)
(* never removed and is only ever overwritten by a strictly smaller value,   *)
(* and the entry of a visited key is never written again.                    *)
DistanceOnlyImproves == [][DistanceStep]_vars

(* the array q without one occurrence of v *)
RECURSIVE Without(_, _)
Without(q, v) ==
    IF q = <<>> THEN <<>>
    ELSE IF Head(q) = v THEN Tail(q) ELSE <<Head(q)>> \o Without(Tail(q), v)

PopsVisited ==
    /\ pc = "loop"
    /\ Length(queue) > 0
    /\ vertices[At(queue, 0)].val \in visited

ExpandStep ==
    kind = "Dijkstra" =>
        /\ visited \subseteq visited'
        /\ pc' = "edges" =>
              \/ pc = "edges" /\ currVert' = currVert
              \/ /\ pc = "loop"
                 /\ vertices[currVert'].val \notin visited
                 /\ vertices[currVert'].val \in visited'
        /\ distance' # distance => pc = "edges"
        /\ PopsVisited =>
              /\ distance' = distance
              /\ visited' = visited
              /\ pc' = "loop"
              /\ SameMultiset(queue', Without(queue, At(queue, 0)))

(* C14: in Graph.dijkstra a key is expanded at most once: the edges of a     *)
(* vertex are relaxed only after a pop of a key that was not visited, which  *)
(* marks it for good; a pop of a visited key leaves the distance map and the *)
(* visited set as they were and takes exactly that one entry from the queue. *)
ExpandedOnce == [][ExpandStep]_vars

(* a vertex that was already visited has just been popped and discarded *)
ExpandedOnceWitness ==
    /\ kind = "Dijkstra"
    /\ op = "pop"
    /\ pc = "loop"
    /\ pops > Cardinality(visited)
    /\ SameMultiset(queue, Without(before, ret.val))
    /\ Length(queue) > 0

(* C15: after Graph.create there is one Vertex object per key: every edge    *)
(* held by a vertex in lookup points to the object lookup has under that     *)
(* key, and every Vertex that was given an edge is the object lookup has     *)
(* under its key, also when a self-loop entry introduced the key.            *)
OneObjectPerKey ==
    pc = "created" =>
        /\ \A v, w \in 1..Len(vertices) : vertices[v].val = vertices[w].val => v = w
        /\ OneVertexPerKey(vertices, lookup)
        /\ \A v \in 1..Len(vertices) :
              vertices[v].edges # <<>> => lookup[vertices[v].val] = v

(* the rounds of the balancing loop run by the last push or pop *)
LastRounds ==
    IF op = "push"
    THEN PushRounds(Append(before, arg), CompareOf(kind), Len(before))
    ELSE IF op = "pop" /\ Len(before) > 0
         THEN PopRounds(Reseated(before), CompareOf(kind), 0)
         ELSE <<>>

(* both siblings are in the array and neither compares before the other *)
SiblingsTie(r) ==
    /\ r.rightIndex < Len(r.q)
    /\ ~CompareOf(kind)[At(r.q, r.leftIndex), At(r.q, r.rightIndex)]
    /\ ~CompareOf(kind)[At(r.q, r.rightIndex), At(r.q, r.leftIndex)]

(* C16 as stated: when the two siblings are equal under the ordering, the   *)
(* left sibling is the candidate compared against the element above.        *)
TiesGoLeft ==
    \A i \in 1..Len(LastRounds) :
        SiblingsTie(LastRounds[i]) => LastRounds[i].childIndex = LastRounds[i].leftIndex

(* C16, amended: when the two siblings are equal under the ordering, the    *)
(* right sibling is the candidate; the left one is the candidate only when  *)
(* it compares strictly before the right one or there is no right one.      *)
TiesGoRight ==
    \A i \in 1..Len(LastRounds) :
        LET r == LastRounds[i]
        IN /\ SiblingsTie(r) => r.childIndex = r.rightIndex
           /\ r.childIndex = r.leftIndex <=>
                 \/ r.rightIndex >= Len(r.q)
                 \/ CompareOf(kind)[At(r.q, r.leftIndex), At(r.q, r.rightIndex)]
           /\ r.childIndex \in {r.leftIndex, r.rightIndex}

(* a pop whose sift-down met two equal children *)
TiesGoRightWitness ==
    /\ op = "pop"
    /\ \E i \in 1..Len(LastRounds) :
          /\ SiblingsTie(LastRounds[i])
          /\ LastRounds[i].childIndex = LastRounds[i].rightIndex
    /\ \E i \in 1..Len(LastRounds) : ~SiblingsTie(LastRounds[i])

(* C17: in any sequence of pushes and pops, also on empty and one-element   *)
(* queues, every index of the backing array that a balancing round reads,   *)
(* compares or swaps lies in [0, length), element 0 is read by pop only     *)
(* when the array is not empty, and popping the last element leaves the     *)
(* array empty.                                                             *)
IndicesInBounds ==
    /\ \A i \in 1..Len(LastRounds) :
          \A j \in RoundReads(LastRounds[i]) : 0 <= j /\ j < Len(LastRounds[i].q)
    /\ (op = "push" /\ Len(before) = 0) => (LastRounds = <<>> /\ queue = <<arg>>)
    /\ (op = "pop" /\ Len(before) = 0) => (LastRounds = <<>> /\ ret = Null)
    /\ (op = "pop" /\ Len(before) = 1) => (LastRounds = <<>> /\ queue = <<>>)

(* the queue has been popped down to nothing and pushed to again *)
IndicesInBoundsWitness ==
    /\ op = "push"
    /\ Len(before) = 0
    /\ pops >= 2
    /\ initial # <<>>

(* the least number of edges on a path from the key of source to key k *)
Hops(k) ==
    LET E == {<<e[1], e[2], 1>> : e \in EdgeTriples(vertices, lookup)}
    IN Minimum(WalkCosts(E, DOMAIN lookup, vertices[source].val,
                         Cardinality(DOMAIN lookup) - 1)[k])

(* C18: Graph.bfs expands vertices in level order: a vertex about to be     *)
(* expanded, or being expanded, is at least as many edges away from source  *)
(* as every vertex expanded before it.                                      *)
BfsLevelOrder ==
    /\ (pc = "loop" /\ bfsQueue # <<>> /\ vertices[Head(bfsQueue)].val \notin visited) =>
          \A u \in visited : Hops(u) <= Hops(vertices[Head(bfsQueue)].val)
    /\ pc = "edges" =>
          \A u \in visited : Hops(u) <= Hops(vertices[currVert].val)

(* a vertex two edges from source is being expanded after an already visited *)
(* vertex was dequeued and skipped                                           *)
BfsLevelOrderWitness ==
    /\ pc = "edges"
    /\ Hops(vertices[currVert].val) >= 2
    /\ Cardinality(visited) >= 3
    /\ \E u, w \in visited : Hops(u) < Hops(w)

(* C19: push and pop preserve the multiset of stored elements: after push(x) *)
(* the array holds what it held plus one x, after pop() on a non-empty queue *)
(* it holds what it held minus one occurrence of the returned element.       *)
MultisetPreserved ==
    /\ op = "push" =>
          /\ SameMultiset(queue, Append(before, arg))
          /\ Len(queue) = Len(before) + 1
    /\ (op = "pop" /\ before # <<>>) =>
          /\ ret # Null
          /\ SameMultiset(Append(queue, ret.val), before)
          /\ Len(queue) = Len(before) - 1

(* a pop that swapped, on an array holding some value twice, after a push *)
MultisetPreservedWitness ==
    /\ op = "pop"
    /\ Len(before) >= 3
    /\ queue # Reseated(before)
    /\ pushes >= 1
    /\ \E i, j \in 1..Len(before) : i # j /\ before[i] = before[j]

DijkstraPushesBounded ==
    /\ pushes <= Cardinality(ReachableEdges(vertices, lookup, source))
    /\ pops <= 1 + Cardinality(ReachableEdges(vertices, lookup, source))
    /\ pc = "done" => pops = 1 + pushes

(* C20: Graph.dijkstra terminates on every graph, with cycles, self-loops    *)
(* and negative costs: it pushes at most once per outgoing edge of the       *)
(* vertices reachable from source and pops at most once more than that.      *)
DijkstraTerminates == <>(pc = "done") /\ []DijkstraPushesBounded

(* a finished run over the negative cycle and the negative self-loop *)
DijkstraTerminatesWitness ==
    /\ pc = "done"
    /\ connections = NegativeConnections
    /\ vertices[source].val = 1
    /\ pushes = 5
    /\ pops = 6
    /\ visited = {1, 2, 3}

=============================================================================
